---- MODULE Spec2Model ----
(***************************************************************************)
(* Model of kauppie/sliceutils: the slice division generator of common.go, *)
(* the parallel map (ParMap) built on it, and the sequential slice         *)
(* functions (All .. Union), each called once on inputs from bounded sets. *)
(*                                                                         *)
(* A Go slice is a record [nil, elems]: the nil slice is distinct from the *)
(* empty one.  A value that a Go function either returns or panics on is a *)
(* record with a status field st ("ok" / "panic"; "none" = not computed).  *)
(***************************************************************************)
EXTENDS Integers, Sequences, FiniteSets

\* ---------------------------------------------------------------- bounds
MaxSliceLen == 3      \* longest input slice given to ParMap
MaxElem == 2          \* slice elements are 1..MaxElem
MaxCPU == 3           \* largest runtime.NumCPU() considered
DivMaxLength == 10    \* largest length given to newSliceDivGen directly
DivMaxDivs == 4       \* largest division count given to newSliceDivGen directly

\* ---------------------------------------------------------------- values
NilSlice == [nil |-> TRUE, elems |-> <<>>]

MkSlice(s) == [nil |-> FALSE, elems |-> s]

\* zeroValue[int]()
zeroValue == 0

Elems == 1..MaxElem

RECURSIVE SeqsUpTo(_)
SeqsUpTo(n) ==
    IF n = 0 THEN {<<>>}
    ELSE LET shorter == SeqsUpTo(n - 1)
         IN  shorter \cup {Append(s, e) : s \in {t \in shorter : Len(t) = n - 1}, e \in Elems}

Slices == {NilSlice} \cup {MkSlice(s) : s \in SeqsUpTo(MaxSliceLen)}

\* the eight-element input mapped by four workers
ScenarioSlice == MkSlice(<<1, 2, 3, 4, 5, 6, 7, 8>>)

Max(a, b) == IF a > b THEN a ELSE b

\* Caller-supplied mapping functions: two pure total ones, one that panics
\* on odd arguments, and the nil function value, whose call panics.
MapFns == {"double", "succ", "failOdd", "nil"}

Panics(fn, x) == fn = "nil" \/ (fn = "failOdd" /\ x % 2 = 1)

Apply(fn, x) ==
    CASE fn = "double" -> 2 * x
      [] fn = "succ" -> x + 1
      [] OTHER -> x

\* mapFn returns on every element of the slice
Total(fn, sl) == \A i \in 1..Len(sl.elems) : ~Panics(fn, sl.elems[i])

\* ------------------------------------------------- slice division generator
NoGen == [st |-> "none", minDivLen |-> 0, firstPartDivs |-> 0]

PanicGen == [st |-> "panic", minDivLen |-> 0, firstPartDivs |-> 0]

\* variant: a zero division count is taken as one division
newSliceDivGen_ZeroAsOne(length, divs) ==
    IF divs = 0 THEN [st |-> "ok", minDivLen |-> length, firstPartDivs |-> 0]
    ELSE [st |-> "ok", minDivLen |-> length \div divs, firstPartDivs |-> length % divs]

\* length / divs and length % divs panic at run time when divs is zero
newSliceDivGen(length, divs) ==
    IF divs = 0 THEN PanicGen
    ELSE [st |-> "ok", minDivLen |-> length \div divs, firstPartDivs |-> length % divs]

NoPart == [st |-> "none", offset |-> 0, length |-> 0]

\* variant: the offset of the short divisions forgets the extra elements
offsetAndLength_NoRemainder(sdg, divIdx) ==
    IF divIdx < sdg.firstPartDivs
    THEN [st |-> "ok", offset |-> (sdg.minDivLen + 1) * divIdx, length |-> sdg.minDivLen + 1]
    ELSE [st |-> "ok", offset |-> divIdx * sdg.minDivLen, length |-> sdg.minDivLen]

\* variant: the offset of the long divisions uses the short length
offsetAndLength_ShortStride(sdg, divIdx) ==
    IF divIdx < sdg.firstPartDivs
    THEN [st |-> "ok", offset |-> sdg.minDivLen * divIdx, length |-> sdg.minDivLen + 1]
    ELSE [st |-> "ok", offset |-> divIdx * sdg.minDivLen + sdg.firstPartDivs,
          length |-> sdg.minDivLen]

\* variant: one division too many gets the extra element
offsetAndLength_OffByOne(sdg, divIdx) ==
    IF divIdx <= sdg.firstPartDivs
    THEN [st |-> "ok", offset |-> (sdg.minDivLen + 1) * divIdx, length |-> sdg.minDivLen + 1]
    ELSE [st |-> "ok", offset |-> divIdx * sdg.minDivLen + sdg.firstPartDivs,
          length |-> sdg.minDivLen]

offsetAndLength(sdg, divIdx) ==
    IF divIdx < sdg.firstPartDivs
    THEN [st |-> "ok", offset |-> (sdg.minDivLen + 1) * divIdx, length |-> sdg.minDivLen + 1]
    ELSE [st |-> "ok", offset |-> divIdx * sdg.minDivLen + sdg.firstPartDivs,
          length |-> sdg.minDivLen]

NoRange == [st |-> "none", start |-> 0, end |-> 0]

\* variant: the length is returned as the end
startAndEnd_EndIsLength(sdg, divIdx) ==
    LET ol == offsetAndLength(sdg, divIdx)
    IN  [st |-> ol.st, start |-> ol.offset, end |-> ol.length]

startAndEnd(sdg, divIdx) ==
    LET ol == offsetAndLength(sdg, divIdx)
    IN  [st |-> ol.st, start |-> ol.offset, end |-> ol.offset + ol.length]

\* ------------------------------------------------------------ sequential Map
RECURSIVE MapLoop(_, _, _)
MapLoop(elems, fn, outSlice) ==
    IF elems = <<>> THEN outSlice
    ELSE MapLoop(Tail(elems), fn, Append(outSlice, Apply(fn, Head(elems))))

\* Map(slice, mapFn) for a mapFn that returns on every element
Map(sl, fn) == IF sl.nil THEN NilSlice ELSE MkSlice(MapLoop(sl.elems, fn, <<>>))

\* ---------------------------------------------------------------- state
VARIABLES
    slice, mapFn, numCPU,         \* ParMap's arguments and runtime.NumCPU()
    pc,                           \* position of the goroutine that called ParMap
    sliceDivGen, resultSlice, wg, divIdx,   \* ParMap's locals
    workers,                      \* the goroutines started by ParMap
    ret,                          \* ParMap's return value
    proc,                         \* "running" or "crashed" (unrecovered panic)
    reads, writes, calls, writeCnt, doneOrder,  \* access history of the workers
    genLength, genDivs, divGen, parts, ranges,     \* direct use of the generator
    op, fn, lhs, rhs,             \* a call of a sequential function and its arguments
    lhsAfter,                     \* the caller's first slice as the call leaves it
    out, out2,                    \* what the call returned, and a follow-up call
    fwd, bck, ppc,                \* PartitionInPlace's locals and position
    slices,                       \* the argument of Join and of Flatten
    cbArgs                        \* the arguments the callback was called with, in order

vars == <<slice, mapFn, numCPU, pc, sliceDivGen, resultSlice, wg, divIdx, workers,
          ret, proc, reads, writes, calls, writeCnt, doneOrder,
          genLength, genDivs, divGen, parts, ranges,
          op, fn, lhs, rhs, lhsAfter, out, out2, fwd, bck, ppc, slices, cbArgs>>

parVars == <<slice, mapFn, numCPU, pc, sliceDivGen, resultSlice, wg, divIdx, workers,
             ret, proc, reads, writes, calls, writeCnt, doneOrder>>

divVars == <<genLength, genDivs, divGen, parts, ranges>>

seqVars == <<op, fn, lhs, rhs, lhsAfter, out, out2, fwd, bck, ppc, slices, cbArgs>>

auxVars == <<slices, cbArgs>>

\* a slice as its caller holds it: the visible elements and the capacity of
\* the backing array
NilCallerSlice == [nil |-> TRUE, elems |-> <<>>, cap |-> 0]

\* what a call returns: st is "ok" or "panic"; a, b are slice results, n an
\* integer result and ok a boolean result
NoOut == [st |-> "none", a |-> NilSlice, b |-> NilSlice, n |-> 0, ok |-> FALSE]

SeqIdle ==
    /\ op = "none" /\ fn = "nil"
    /\ lhs = NilCallerSlice /\ rhs = NilCallerSlice /\ lhsAfter = NilCallerSlice
    /\ out = NoOut /\ out2 = NoOut
    /\ fwd = 0 /\ bck = 0 /\ ppc = "idle"
    /\ slices = NilSlice /\ cbArgs = <<>>

WorkerIds == 0..(Max(MaxCPU, 4) - 1)

Slots == 1..Max(MaxSliceLen, Len(ScenarioSlice.elems))

Unborn == [pc |-> "unborn", start |-> 0, end |-> 0, k |-> 0, mapped |-> <<>>]

DivIdxs == 0..DivMaxDivs

ParIdle ==
    /\ slice = NilSlice /\ mapFn = "double" /\ numCPU = 1
    /\ pc = "idle"
    /\ sliceDivGen = NoGen /\ resultSlice = NilSlice /\ wg = 0 /\ divIdx = 0
    /\ workers = [w \in WorkerIds |-> Unborn]
    /\ ret = NilSlice /\ proc = "running"
    /\ reads = [w \in WorkerIds |-> {}]
    /\ writes = [w \in WorkerIds |-> {}]
    /\ calls = [i \in Slots |-> 0]
    /\ writeCnt = [i \in Slots |-> 0]
    /\ doneOrder = <<>>

DivIdle ==
    /\ genLength = 0 /\ genDivs = 1 /\ divGen = NoGen
    /\ parts = [i \in DivIdxs |-> NoPart]
    /\ ranges = [i \in DivIdxs |-> NoRange]

\* ------------------------------------------------------------------ ParMap
Init ==
    /\ \/ slice \in Slices /\ mapFn \in MapFns /\ numCPU \in 1..MaxCPU
       \/ slice = ScenarioSlice /\ mapFn = "double" /\ numCPU = 4
    /\ pc = "call"
    /\ sliceDivGen = NoGen /\ resultSlice = NilSlice /\ wg = 0 /\ divIdx = 0
    /\ workers = [w \in WorkerIds |-> Unborn]
    /\ ret = NilSlice /\ proc = "running"
    /\ reads = [w \in WorkerIds |-> {}]
    /\ writes = [w \in WorkerIds |-> {}]
    /\ calls = [i \in Slots |-> 0]
    /\ writeCnt = [i \in Slots |-> 0]
    /\ doneOrder = <<>>
    /\ DivIdle
    /\ SeqIdle

\* if slice == nil { return nil }
ParMapNil ==
    /\ proc = "running" /\ pc = "call" /\ slice.nil
    /\ ret' = NilSlice
    /\ pc' = "done"
    /\ UNCHANGED <<slice, mapFn, numCPU, sliceDivGen, resultSlice, wg, divIdx, workers,
                   proc, reads, writes, calls, writeCnt, doneOrder>>
    /\ UNCHANGED <<divVars, seqVars>>

\* variant: the nil check is missing
ParMapSetup_NoNilCheck ==
    /\ proc = "running" /\ pc = "call"
    /\ sliceDivGen' = newSliceDivGen(Len(slice.elems), numCPU)
    /\ resultSlice' = MkSlice([i \in 1..Len(slice.elems) |-> zeroValue])
    /\ wg' = numCPU
    /\ divIdx' = 0
    /\ pc' = "spawn"
    /\ UNCHANGED <<slice, mapFn, numCPU, workers, ret, proc, reads, writes, calls,
                   writeCnt, doneOrder>>
    /\ UNCHANGED <<divVars, seqVars>>

\* divs := runtime.NumCPU() ... wg.Add(divs)
ParMapSetup ==
    /\ proc = "running" /\ pc = "call" /\ ~slice.nil
    /\ LET gen == newSliceDivGen(Len(slice.elems), numCPU)
       IN  IF gen.st = "panic"
           THEN /\ proc' = "crashed"
                /\ UNCHANGED <<sliceDivGen, resultSlice, wg, divIdx, pc>>
           ELSE /\ sliceDivGen' = gen
                /\ resultSlice' = MkSlice([i \in 1..Len(slice.elems) |-> zeroValue])
                /\ wg' = numCPU
                /\ divIdx' = 0
                /\ pc' = "spawn"
                /\ UNCHANGED proc
    /\ UNCHANGED <<slice, mapFn, numCPU, workers, ret, reads, writes, calls, writeCnt,
                   doneOrder>>
    /\ UNCHANGED <<divVars, seqVars>>

\* for divIdx := 0; divIdx < divs; divIdx++ { go func(divIdx int) {...}(divIdx) }
Spawn ==
    /\ proc = "running" /\ pc = "spawn" /\ divIdx < numCPU
    /\ workers' = [workers EXCEPT ![divIdx].pc = "get"]
    /\ divIdx' = divIdx + 1
    /\ pc' = IF divIdx + 1 < numCPU THEN "spawn" ELSE "wait"
    /\ UNCHANGED <<slice, mapFn, numCPU, sliceDivGen, resultSlice, wg, ret, proc,
                   reads, writes, calls, writeCnt, doneOrder>>
    /\ UNCHANGED <<divVars, seqVars>>

\* variant: the result is returned without wg.Wait()
WaitReturn_NoWait ==
    /\ proc = "running" /\ pc = "wait"
    /\ ret' = resultSlice
    /\ pc' = "done"
    /\ UNCHANGED <<slice, mapFn, numCPU, sliceDivGen, resultSlice, wg, divIdx, workers,
                   proc, reads, writes, calls, writeCnt, doneOrder>>
    /\ UNCHANGED <<divVars, seqVars>>

\* wg.Wait(); return resultSlice
WaitReturn ==
    /\ proc = "running" /\ pc = "wait" /\ wg = 0
    /\ ret' = resultSlice
    /\ pc' = "done"
    /\ UNCHANGED <<slice, mapFn, numCPU, sliceDivGen, resultSlice, wg, divIdx, workers,
                   proc, reads, writes, calls, writeCnt, doneOrder>>
    /\ UNCHANGED <<divVars, seqVars>>

\* slice[start:end] and resultSlice[start:end] panic unless 0 <= start <= end <= cap
InBounds(start, end, cap) == 0 <= start /\ start <= end /\ end <= cap

\* offset, length := sliceDivGen.get(divIdx); start, end := offset, offset+length
\* followed by the slice expression slice[start:end] that is Map's argument.
\* get is the generator's (offset, length) query, offsetAndLength in common.go.
WorkerGet(w) ==
    /\ proc = "running" /\ workers[w].pc = "get"
    /\ LET ol == offsetAndLength(sliceDivGen, w)
           start == ol.offset
           end == ol.offset + ol.length
       IN  workers' = [workers EXCEPT ![w] =
               IF InBounds(start, end, Len(slice.elems))
               THEN [pc |-> "map", start |-> start, end |-> end, k |-> 0, mapped |-> <<>>]
               ELSE [pc |-> "panicking", start |-> start, end |-> end, k |-> 0,
                     mapped |-> <<>>]]
    /\ UNCHANGED <<slice, mapFn, numCPU, pc, sliceDivGen, resultSlice, wg, divIdx, ret,
                   proc, reads, writes, calls, writeCnt, doneOrder>>
    /\ UNCHANGED <<divVars, seqVars>>

\* one iteration of Map's loop over slice[start:end]
WorkerMapStep(w) ==
    /\ proc = "running" /\ workers[w].pc = "map"
    /\ workers[w].k < workers[w].end - workers[w].start
    /\ LET i == workers[w].start + workers[w].k + 1
           val == slice.elems[i]
       IN  /\ reads' = [reads EXCEPT ![w] = @ \cup {i}]
           /\ calls' = [calls EXCEPT ![i] = @ + 1]
           /\ workers' = [workers EXCEPT ![w] =
                  IF Panics(mapFn, val)
                  THEN [@ EXCEPT !.pc = "panicking"]
                  ELSE [@ EXCEPT !.k = @ + 1,
                                 !.mapped = Append(@, Apply(mapFn, val))]]
    /\ UNCHANGED <<slice, mapFn, numCPU, pc, sliceDivGen, resultSlice, wg, divIdx, ret,
                   proc, writes, writeCnt, doneOrder>>
    /\ UNCHANGED <<divVars, seqVars>>

\* Map returns outSlice; resultSlice[start:end] is evaluated for copy
WorkerMapReturn(w) ==
    /\ proc = "running" /\ workers[w].pc = "map"
    /\ workers[w].k = workers[w].end - workers[w].start
    /\ workers' = [workers EXCEPT ![w] =
           IF InBounds(@.start, @.end, Len(resultSlice.elems))
           THEN [@ EXCEPT !.pc = "copy", !.k = 0]
           ELSE [@ EXCEPT !.pc = "panicking"]]
    /\ UNCHANGED <<slice, mapFn, numCPU, pc, sliceDivGen, resultSlice, wg, divIdx, ret,
                   proc, reads, writes, calls, writeCnt, doneOrder>>
    /\ UNCHANGED <<divVars, seqVars>>

Min(a, b) == IF a < b THEN a ELSE b

\* copy(dst, src) copies min(len(dst), len(src)) elements
CopyLen(w) == Min(workers[w].end - workers[w].start, Len(workers[w].mapped))

\* variant: copy(resultSlice, mappedSubSlice), the destination is not sub-sliced
WorkerCopyStep_NoSubSlice(w) ==
    /\ proc = "running" /\ workers[w].pc = "copy"
    /\ workers[w].k < CopyLen(w)
    /\ LET i == workers[w].k + 1
       IN  /\ resultSlice' = [resultSlice EXCEPT !.elems[i] = workers[w].mapped[workers[w].k + 1]]
           /\ writes' = [writes EXCEPT ![w] = @ \cup {i}]
           /\ writeCnt' = [writeCnt EXCEPT ![i] = @ + 1]
    /\ workers' = [workers EXCEPT ![w].k = @ + 1]
    /\ UNCHANGED <<slice, mapFn, numCPU, pc, sliceDivGen, wg, divIdx, ret,
                   proc, reads, calls, doneOrder>>
    /\ UNCHANGED <<divVars, seqVars>>

\* one element of copy(resultSlice[start:end], mappedSubSlice)
WorkerCopyStep(w) ==
    /\ proc = "running" /\ workers[w].pc = "copy"
    /\ workers[w].k < CopyLen(w)
    /\ LET i == workers[w].start + workers[w].k + 1
       IN  /\ resultSlice' = [resultSlice EXCEPT !.elems[i] = workers[w].mapped[workers[w].k + 1]]
           /\ writes' = [writes EXCEPT ![w] = @ \cup {i}]
           /\ writeCnt' = [writeCnt EXCEPT ![i] = @ + 1]
    /\ workers' = [workers EXCEPT ![w].k = @ + 1]
    /\ UNCHANGED <<slice, mapFn, numCPU, pc, sliceDivGen, wg, divIdx, ret,
                   proc, reads, calls, doneOrder>>
    /\ UNCHANGED <<divVars, seqVars>>

\* variant: the goroutine returns without wg.Done()
WorkerDone_NoSignal(w) ==
    /\ proc = "running" /\ workers[w].pc = "copy"
    /\ workers[w].k = CopyLen(w)
    /\ workers' = [workers EXCEPT ![w].pc = "exit"]
    /\ UNCHANGED <<slice, mapFn, numCPU, pc, sliceDivGen, resultSlice, wg, divIdx, ret,
                   proc, reads, writes, calls, writeCnt, doneOrder>>
    /\ UNCHANGED <<divVars, seqVars>>

\* the goroutine's function returns: deferred wg.Done() runs
WorkerDone(w) ==
    /\ proc = "running" /\ workers[w].pc = "copy"
    /\ workers[w].k = CopyLen(w)
    /\ wg' = wg - 1
    /\ doneOrder' = Append(doneOrder, w)
    /\ workers' = [workers EXCEPT ![w].pc = "exit"]
    /\ UNCHANGED <<slice, mapFn, numCPU, pc, sliceDivGen, resultSlice, divIdx, ret,
                   proc, reads, writes, calls, writeCnt>>
    /\ UNCHANGED <<divVars, seqVars>>

\* the goroutine is panicking: deferred wg.Done() runs, nothing recovers
WorkerPanicDefer(w) ==
    /\ proc = "running" /\ workers[w].pc = "panicking"
    /\ wg' = wg - 1
    /\ doneOrder' = Append(doneOrder, w)
    /\ workers' = [workers EXCEPT ![w].pc = "dying"]
    /\ UNCHANGED <<slice, mapFn, numCPU, pc, sliceDivGen, resultSlice, divIdx, ret,
                   proc, reads, writes, calls, writeCnt>>
    /\ UNCHANGED <<divVars, seqVars>>

\* the panic reaches the top of the goroutine's stack: the runtime ends the
\* whole program
WorkerCrash(w) ==
    /\ proc = "running" /\ workers[w].pc = "dying"
    /\ proc' = "crashed"
    /\ workers' = [workers EXCEPT ![w].pc = "crashed"]
    /\ UNCHANGED <<slice, mapFn, numCPU, pc, sliceDivGen, resultSlice, wg, divIdx, ret,
                   reads, writes, calls, writeCnt, doneOrder>>
    /\ UNCHANGED <<divVars, seqVars>>

Next ==
    \/ ParMapNil
    \/ ParMapSetup
    \/ Spawn
    \/ WaitReturn
    \/ \E w \in WorkerIds : WorkerGet(w)
    \/ \E w \in WorkerIds : WorkerMapStep(w)
    \/ \E w \in WorkerIds : WorkerMapReturn(w)
    \/ \E w \in WorkerIds : WorkerCopyStep(w)
    \/ \E w \in WorkerIds : WorkerDone(w)
    \/ \E w \in WorkerIds : WorkerPanicDefer(w)
    \/ \E w \in WorkerIds : WorkerCrash(w)

Spec == Init /\ [][Next]_vars

\* the steps of the goroutine that called ParMap, and of worker w
CallerStep == ParMapNil \/ ParMapSetup \/ Spawn \/ WaitReturn

WorkerStep(w) ==
    \/ WorkerGet(w) \/ WorkerMapStep(w) \/ WorkerMapReturn(w) \/ WorkerCopyStep(w)
    \/ WorkerDone(w) \/ WorkerPanicDefer(w) \/ WorkerCrash(w)

\* the Go scheduler lets every runnable goroutine run eventually
SpecFair ==
    Init /\ [][Next]_vars /\ WF_vars(CallerStep) /\ \A w \in WorkerIds : WF_vars(WorkerStep(w))

\* ------------------------------------------- direct use of the generator
InitDiv ==
    /\ ParIdle
    /\ SeqIdle
    /\ genLength \in 0..DivMaxLength /\ genDivs \in 0..DivMaxDivs
    /\ divGen = NoGen
    /\ parts = [i \in DivIdxs |-> NoPart]
    /\ ranges = [i \in DivIdxs |-> NoRange]

DivNew ==
    /\ divGen.st = "none"
    /\ divGen' = newSliceDivGen(genLength, genDivs)
    /\ UNCHANGED <<genLength, genDivs, parts, ranges>>
    /\ UNCHANGED <<parVars, seqVars>>

DivOffsetAndLength(i) ==
    /\ divGen.st = "ok" /\ parts[i].st = "none"
    /\ parts' = [parts EXCEPT ![i] = offsetAndLength(divGen, i)]
    /\ UNCHANGED <<genLength, genDivs, divGen, ranges>>
    /\ UNCHANGED <<parVars, seqVars>>

DivStartAndEnd(i) ==
    /\ divGen.st = "ok" /\ ranges[i].st = "none"
    /\ ranges' = [ranges EXCEPT ![i] = startAndEnd(divGen, i)]
    /\ UNCHANGED <<genLength, genDivs, divGen, parts>>
    /\ UNCHANGED <<parVars, seqVars>>

NextDiv ==
    \/ DivNew
    \/ \E i \in DivIdxs : DivOffsetAndLength(i)
    \/ \E i \in DivIdxs : DivStartAndEnd(i)

SpecDiv == InitDiv /\ [][NextDiv]_vars

\* ------------------------------------------------ sequential functions
SeqMaxLen == 3        \* longest slice given to a sequential function
SeqMaxElem == 3       \* its elements are 1..SeqMaxElem
JoinMaxArgs == 2      \* most slices given to Join / held by Flatten's argument
JoinMaxLen == 2       \* longest of those slices
JoinMaxElem == 2      \* their elements are 1..JoinMaxElem
MaxSpare == 1         \* largest spare capacity (cap - len) of the caller's slice

RECURSIVE SeqsOver(_, _)
SeqsOver(n, E) ==
    IF n = 0 THEN {<<>>}
    ELSE LET shorter == SeqsOver(n - 1, E)
         IN  shorter \cup {Append(s, e) : s \in {t \in shorter : Len(t) = n - 1}, e \in E}

\* slices without spare capacity
PlainSlices ==
    {NilCallerSlice} \cup
    {[nil |-> FALSE, elems |-> s, cap |-> Len(s)] : s \in SeqsOver(SeqMaxLen, 1..SeqMaxElem)}

\* slices with and without spare capacity
CallerSlices ==
    {NilCallerSlice} \cup
    {[nil |-> FALSE, elems |-> s, cap |-> Len(s) + k] :
        s \in SeqsOver(SeqMaxLen, 1..SeqMaxElem), k \in 0..MaxSpare}

PanicOut == [NoOut EXCEPT !.st = "panic"]

OkSlice(s) == [NoOut EXCEPT !.st = "ok", !.a = s]

OkSlices(s, t) == [NoOut EXCEPT !.st = "ok", !.a = s, !.b = t]

OkBool(v) == [NoOut EXCEPT !.st = "ok", !.ok = v]

OkInt(n) == [NoOut EXCEPT !.st = "ok", !.n = n]

OkIntBool(n, v) == [NoOut EXCEPT !.st = "ok", !.n = n, !.ok = v]

\* A func(T) bool value: the caller's predicates, the nil function, and the
\* closures the library builds over a set of elements (env).
PredFns == {"isEven", "gtOne", "nil"}

Cb(id) == [id |-> id, env |-> {}]

IsNilFn(cb) == cb.id = "nil"

\* what the call cb(x) returns
PredVal(cb, x) ==
    CASE cb.id = "isEven" -> x % 2 = 0
      [] cb.id = "gtOne" -> x > 1
      [] cb.id = "dedup" -> x \notin cb.env
      [] cb.id = "notIn" -> x \notin cb.env
      [] OTHER -> x \in cb.env

\* variant: the closure of Deduplicate never records what it has seen
PredNext_NoRecord(cb, x) == cb

\* the closure after the call cb(x): Deduplicate's closure records x
PredNext(cb, x) == IF cb.id = "dedup" THEN [cb EXCEPT !.env = @ \cup {x}] ELSE cb

LessFns == {"less", "lessHalf", "nil"}

\* lessFn(a, b); lessHalf compares a / 2 and b / 2, so 2 and 3 are tied
Less(f, a, b) == IF f = "less" THEN a < b ELSE (a \div 2) < (b \div 2)

FoldFns == {"add", "nil"}

FoldApply(f, acc, x) == acc + x

FilterMapFns == {"halfEven", "nil"}

FilterMapApply(f, x) == [val |-> x \div 2, ok |-> x % 2 = 0]

makeSet(sl) == {sl.elems[i] : i \in 1..Len(sl.elems)}

RECURSIVE AllLoop(_, _)
AllLoop(elems, cb) ==
    IF elems = <<>> THEN OkBool(TRUE)
    ELSE IF IsNilFn(cb) THEN PanicOut
    ELSE IF ~PredVal(cb, Head(elems)) THEN OkBool(FALSE)
    ELSE AllLoop(Tail(elems), PredNext(cb, Head(elems)))

All(sl, cb) == AllLoop(sl.elems, cb)

\* the values allFn is called with by the same loop, in call order (calling
\* a nil allFn panics before anything is invoked)
RECURSIVE AllArgsLoop(_, _, _)
AllArgsLoop(elems, cb, args) ==
    IF elems = <<>> \/ IsNilFn(cb) THEN args
    ELSE IF ~PredVal(cb, Head(elems)) THEN Append(args, Head(elems))
    ELSE AllArgsLoop(Tail(elems), PredNext(cb, Head(elems)), Append(args, Head(elems)))

\* variant: the loop does not return on the first false
AllArgs_NoReturn(sl, cb) == IF IsNilFn(cb) THEN <<>> ELSE sl.elems

AllArgs(sl, cb) == AllArgsLoop(sl.elems, cb, <<>>)

RECURSIVE AnyLoop(_, _)
AnyLoop(elems, cb) ==
    IF elems = <<>> THEN OkBool(FALSE)
    ELSE IF IsNilFn(cb) THEN PanicOut
    ELSE IF PredVal(cb, Head(elems)) THEN OkBool(TRUE)
    ELSE AnyLoop(Tail(elems), PredNext(cb, Head(elems)))

Any(sl, cb) == AnyLoop(sl.elems, cb)

\* the values anyFn is called with by the same loop, in call order
RECURSIVE AnyArgsLoop(_, _, _)
AnyArgsLoop(elems, cb, args) ==
    IF elems = <<>> \/ IsNilFn(cb) THEN args
    ELSE IF PredVal(cb, Head(elems)) THEN Append(args, Head(elems))
    ELSE AnyArgsLoop(Tail(elems), PredNext(cb, Head(elems)), Append(args, Head(elems)))

AnyArgs(sl, cb) == AnyArgsLoop(sl.elems, cb, <<>>)

RECURSIVE CountLoop(_, _, _)
CountLoop(elems, cb, count) ==
    IF elems = <<>> THEN OkInt(count)
    ELSE IF IsNilFn(cb) THEN PanicOut
    ELSE CountLoop(Tail(elems), PredNext(cb, Head(elems)),
                   IF PredVal(cb, Head(elems)) THEN count + 1 ELSE count)

Count(sl, cb) == CountLoop(sl.elems, cb, 0)

\* the values counterFn is called with by the same loop, in call order
RECURSIVE CountArgsLoop(_, _, _)
CountArgsLoop(elems, cb, args) ==
    IF elems = <<>> \/ IsNilFn(cb) THEN args
    ELSE CountArgsLoop(Tail(elems), PredNext(cb, Head(elems)), Append(args, Head(elems)))

CountArgs(sl, cb) == CountArgsLoop(sl.elems, cb, <<>>)

RECURSIVE FilterLoop(_, _, _)
FilterLoop(elems, cb, outSlice) ==
    IF elems = <<>> THEN OkSlice(MkSlice(outSlice))
    ELSE IF IsNilFn(cb) THEN PanicOut
    ELSE FilterLoop(Tail(elems), PredNext(cb, Head(elems)),
                    IF PredVal(cb, Head(elems)) THEN Append(outSlice, Head(elems))
                    ELSE outSlice)

Filter(sl, cb) == IF sl.nil THEN OkSlice(NilSlice) ELSE FilterLoop(sl.elems, cb, <<>>)

\* The loop of FilterInPlace over the backing array arr of *slicep: i is the
\* next (1-based) index read, n the number of elements kept so far.
RECURSIVE FilterInPlaceLoop(_, _, _, _)
FilterInPlaceLoop(arr, i, n, cb) ==
    IF i > Len(arr) THEN [st |-> "ok", arr |-> arr, n |-> n]
    ELSE IF IsNilFn(cb) THEN [st |-> "panic", arr |-> arr, n |-> n]
    ELSE IF PredVal(cb, arr[i])
         THEN FilterInPlaceLoop([arr EXCEPT ![n + 1] = arr[i]], i + 1, n + 1,
                                PredNext(cb, arr[i]))
         ELSE FilterInPlaceLoop(arr, i + 1, n, PredNext(cb, arr[i]))

\* variant: the slice is not shortened
FilterInPlace_KeepLen(sl, cb) ==
    [FilterInPlaceLoop(sl.elems, 1, 0, cb) EXCEPT !.n = Len(sl.elems)]

\* FilterInPlace(&sl, cb) on a non-nil pointer: the array as the loop leaves
\* it and the new length n of *slicep = (*slicep)[:n]
FilterInPlace(sl, cb) == FilterInPlaceLoop(sl.elems, 1, 0, cb)

RECURSIVE FilterMapLoop(_, _, _)
FilterMapLoop(elems, f, outSlice) ==
    IF elems = <<>> THEN OkSlice(MkSlice(outSlice))
    ELSE IF f = "nil" THEN PanicOut
    ELSE LET r == FilterMapApply(f, Head(elems))
         IN  FilterMapLoop(Tail(elems), f, IF r.ok THEN Append(outSlice, r.val) ELSE outSlice)

FilterMap(sl, f) == IF sl.nil THEN OkSlice(NilSlice) ELSE FilterMapLoop(sl.elems, f, <<>>)

\* the index returned is the 0-based index of the code
RECURSIVE FindByLoop(_, _, _)
FindByLoop(elems, i, cb) ==
    IF i > Len(elems) THEN OkIntBool(0, FALSE)
    ELSE IF IsNilFn(cb) THEN PanicOut
    ELSE IF PredVal(cb, elems[i]) THEN OkIntBool(i - 1, TRUE)
    ELSE FindByLoop(elems, i + 1, PredNext(cb, elems[i]))

FindBy(sl, cb) == FindByLoop(sl.elems, 1, cb)

RECURSIVE FoldLoop(_, _, _)
FoldLoop(elems, init, f) ==
    IF elems = <<>> THEN OkInt(init)
    ELSE IF f = "nil" THEN PanicOut
    ELSE FoldLoop(Tail(elems), FoldApply(f, init, Head(elems)), f)

Fold(sl, init, f) == FoldLoop(sl.elems, init, f)

\* for i := 1; i < len(slice); i++ with 0-based i: compares elems[i+1], elems[i]
RECURSIVE IsSortedByLoop(_, _, _)
IsSortedByLoop(elems, i, f) ==
    IF ~(i < Len(elems)) THEN OkBool(TRUE)
    ELSE IF f = "nil" THEN PanicOut
    ELSE IF Less(f, elems[i + 1], elems[i]) THEN OkBool(FALSE)
    ELSE IsSortedByLoop(elems, i + 1, f)

IsSortedBy(sl, f) == IsSortedByLoop(sl.elems, 1, f)

\* Map as a call that may panic in mapFn
MapCall(sl, f) ==
    IF sl.nil THEN OkSlice(NilSlice)
    ELSE IF ~Total(f, sl) THEN PanicOut
    ELSE OkSlice(Map(sl, f))

\* for i := 0; i < len(slice); i++ { slice[i] = mapFn(slice[i]) }
RECURSIVE MapInPlaceLoop(_, _, _)
MapInPlaceLoop(arr, i, f) ==
    IF i > Len(arr) THEN [st |-> "ok", arr |-> arr, n |-> Len(arr)]
    ELSE IF Panics(f, arr[i]) THEN [st |-> "panic", arr |-> arr, n |-> Len(arr)]
    ELSE MapInPlaceLoop([arr EXCEPT ![i] = Apply(f, arr[i])], i + 1, f)

MapInPlace(sl, f) == MapInPlaceLoop(sl.elems, 1, f)

RECURSIVE MaxByLoop(_, _, _)
MaxByLoop(rest, max, f) ==
    IF rest = <<>> THEN OkIntBool(max, TRUE)
    ELSE IF f = "nil" THEN PanicOut
    ELSE MaxByLoop(Tail(rest), IF Less(f, max, Head(rest)) THEN Head(rest) ELSE max, f)

MaxBy(sl, f) ==
    IF Len(sl.elems) = 0 THEN OkIntBool(zeroValue, FALSE)
    ELSE MaxByLoop(Tail(sl.elems), sl.elems[1], f)

RECURSIVE MinByLoop(_, _, _)
MinByLoop(rest, min, f) ==
    IF rest = <<>> THEN OkIntBool(min, TRUE)
    ELSE IF f = "nil" THEN PanicOut
    ELSE MinByLoop(Tail(rest), IF Less(f, Head(rest), min) THEN Head(rest) ELSE min, f)

\* variant: the slice is scanned from its last element to its first
MinBy_Backwards(sl, f) ==
    LET l == Len(sl.elems)
        rev == [j \in 1..l |-> sl.elems[l + 1 - j]]
    IN  IF l = 0 THEN OkIntBool(zeroValue, FALSE)
        ELSE MinByLoop(Tail(rev), rev[1], f)

MinBy(sl, f) ==
    IF Len(sl.elems) = 0 THEN OkIntBool(zeroValue, FALSE)
    ELSE MinByLoop(Tail(sl.elems), sl.elems[1], f)

\* variant: the two branches are appended to the wrong slices
RECURSIVE PartitionLoop_Swapped(_, _, _, _)
PartitionLoop_Swapped(elems, cb, trueSlice, falseSlice) ==
    IF elems = <<>> THEN OkSlices(MkSlice(trueSlice), MkSlice(falseSlice))
    ELSE IF IsNilFn(cb) THEN PanicOut
    ELSE IF PredVal(cb, Head(elems))
         THEN PartitionLoop_Swapped(Tail(elems), cb, trueSlice, Append(falseSlice, Head(elems)))
         ELSE PartitionLoop_Swapped(Tail(elems), cb, Append(trueSlice, Head(elems)), falseSlice)

RECURSIVE PartitionLoop(_, _, _, _)
PartitionLoop(elems, cb, trueSlice, falseSlice) ==
    IF elems = <<>> THEN OkSlices(MkSlice(trueSlice), MkSlice(falseSlice))
    ELSE IF IsNilFn(cb) THEN PanicOut
    ELSE IF PredVal(cb, Head(elems))
         THEN PartitionLoop(Tail(elems), cb, Append(trueSlice, Head(elems)), falseSlice)
         ELSE PartitionLoop(Tail(elems), cb, trueSlice, Append(falseSlice, Head(elems)))

Partition(sl, cb) ==
    IF sl.nil THEN OkSlices(NilSlice, NilSlice) ELSE PartitionLoop(sl.elems, cb, <<>>, <<>>)

\* variant: an empty input is treated like a nil one
Reverse_EmptyAsNil(sl) ==
    IF Len(sl.elems) = 0 THEN OkSlice(NilSlice)
    ELSE OkSlice(MkSlice([j \in 1..Len(sl.elems) |-> sl.elems[Len(sl.elems) + 1 - j]]))

\* for _, val := range slice { outSlice[i] = val; i-- } with 0-based i
RECURSIVE ReverseLoop(_, _, _)
ReverseLoop(elems, i, outSlice) ==
    IF elems = <<>> THEN outSlice
    ELSE ReverseLoop(Tail(elems), i - 1, [outSlice EXCEPT ![i + 1] = Head(elems)])

Reverse(sl) ==
    IF sl.nil THEN OkSlice(NilSlice)
    ELSE OkSlice(MkSlice(ReverseLoop(sl.elems, Len(sl.elems) - 1,
                                     [j \in 1..Len(sl.elems) |-> zeroValue])))

\* for i := 0; i < l/2; i++ { slice[i], slice[l-1-i] = slice[l-1-i], slice[i] }
RECURSIVE ReverseInPlaceLoop(_, _)
ReverseInPlaceLoop(arr, i) ==
    LET l == Len(arr)
    IN  IF ~(i < l \div 2) THEN arr
        ELSE ReverseInPlaceLoop([arr EXCEPT ![i + 1] = arr[l - i], ![l - i] = arr[i + 1]], i + 1)

ReverseInPlace(sl) == ReverseInPlaceLoop(sl.elems, 0)

Deduplicate(sl) == Filter(sl, Cb("dedup"))

DeduplicateInPlace(sl) == FilterInPlace(sl, Cb("dedup"))

\* variant: uniques is built from lhs
Difference_OfLhs(l, r) == Filter(l, [id |-> "notIn", env |-> makeSet(l)])

Difference(l, r) == Filter(l, [id |-> "notIn", env |-> makeSet(r)])

\* variant: a nil left operand gives nil, as in Filter
Intersection_NilLhs(l, r) ==
    IF l.nil THEN OkSlice(NilSlice)
    ELSE FilterLoop(l.elems, [id |-> "in", env |-> makeSet(r)], <<>>)

\* the loop appends the elements of lhs found in uniques to a non-nil slice,
\* which is what FilterLoop does with the closure "in"
Intersection(l, r) ==
    IF l.nil /\ r.nil THEN OkSlice(NilSlice)
    ELSE FilterLoop(l.elems, [id |-> "in", env |-> makeSet(r)], <<>>)

\* append(x, ys...) as a value: nil only if x is nil and nothing is appended
AppendSlices(x, ys) == [nil |-> x.nil /\ ys = <<>>, elems |-> x.elems \o ys]

SymmetricDifference(l, r) ==
    OkSlice(AppendSlices(Difference(l, r).a, Difference(r, l).a.elems))

\* variant: lhs is appended to rhs
Union_RhsFirst(l, r) ==
    LET outSlice == AppendSlices([nil |-> r.nil, elems |-> r.elems], l.elems)
        res == DeduplicateInPlace(outSlice)
    IN  [out |-> OkSlice([nil |-> outSlice.nil, elems |-> SubSeq(res.arr, 1, res.n)]),
         lhsAfter |-> l]

\* variant: rhs is never appended
Union_ForgetRhs(l, r) ==
    LET res == DeduplicateInPlace([elems |-> l.elems])
    IN  [out |-> OkSlice([nil |-> l.nil, elems |-> SubSeq(res.arr, 1, res.n)]),
         lhsAfter |-> [l EXCEPT !.elems = SubSeq(res.arr, 1, Len(l.elems))]]

\* outSlice := append(lhs, rhs...) reuses the backing array of lhs when
\* len(lhs) + len(rhs) <= cap(lhs), and DeduplicateInPlace then rewrites that
\* array; lhsAfter is what the caller's lhs shows afterwards.
Union(l, r) ==
    LET shared == Len(l.elems) + Len(r.elems) <= l.cap
        outSlice == AppendSlices(l, r.elems)
        res == DeduplicateInPlace(outSlice)
    IN  [out |-> OkSlice([nil |-> outSlice.nil, elems |-> SubSeq(res.arr, 1, res.n)]),
         lhsAfter |-> IF shared THEN [l EXCEPT !.elems = SubSeq(res.arr, 1, Len(l.elems))]
                      ELSE l]

\* ------------------------------------------- calls of the sequential functions
Call(name, f, l, r, o, la) ==
    /\ op = "none"
    /\ op' = name /\ fn' = f /\ lhs' = l /\ rhs' = r /\ out' = o /\ lhsAfter' = la
    /\ UNCHANGED <<out2, fwd, bck, ppc>>
    /\ UNCHANGED <<parVars, divVars, auxVars>>

\* a call that also records the callback's invocations
CallLogged(name, f, l, o, args) ==
    /\ op = "none"
    /\ op' = name /\ fn' = f /\ lhs' = l /\ lhsAfter' = l /\ out' = o /\ cbArgs' = args
    /\ UNCHANGED <<rhs, out2, fwd, bck, ppc, slices>>
    /\ UNCHANGED <<parVars, divVars>>

CallAll == op = "none" /\ \E l \in PlainSlices, f \in PredFns :
    CallLogged("All", f, l, All(l, Cb(f)), AllArgs(l, Cb(f)))

CallAny == op = "none" /\ \E l \in PlainSlices, f \in PredFns :
    CallLogged("Any", f, l, Any(l, Cb(f)), AnyArgs(l, Cb(f)))

CallCount == op = "none" /\ \E l \in PlainSlices, f \in PredFns :
    CallLogged("Count", f, l, Count(l, Cb(f)), CountArgs(l, Cb(f)))

CallFilter == op = "none" /\ \E l \in PlainSlices, f \in PredFns :
    Call("Filter", f, l, NilCallerSlice, Filter(l, Cb(f)), l)

\* FilterInPlace(&lhs, f): on return *slicep = (*slicep)[:n]; a panic leaves
\* the length as it was
CallFilterInPlace == op = "none" /\ \E l \in PlainSlices, f \in PredFns :
    LET res == FilterInPlace(l, Cb(f))
    IN  Call("FilterInPlace", f, l, NilCallerSlice,
             [NoOut EXCEPT !.st = res.st, !.n = res.n],
             [l EXCEPT !.elems = IF res.st = "ok" THEN SubSeq(res.arr, 1, res.n) ELSE res.arr])

\* FilterInPlace(nil, f): if slicep == nil { return }
CallFilterInPlaceNilPtr == op = "none" /\ \E f \in PredFns :
    Call("FilterInPlaceNilPtr", f, NilCallerSlice, NilCallerSlice,
         [NoOut EXCEPT !.st = "ok"], NilCallerSlice)

CallFilterMap == op = "none" /\ \E l \in PlainSlices, f \in FilterMapFns :
    Call("FilterMap", f, l, NilCallerSlice, FilterMap(l, f), l)

CallFindBy == op = "none" /\ \E l \in PlainSlices, f \in PredFns :
    Call("FindBy", f, l, NilCallerSlice, FindBy(l, Cb(f)), l)

CallFold == op = "none" /\ \E l \in PlainSlices, f \in FoldFns :
    Call("Fold", f, l, NilCallerSlice, Fold(l, 5, f), l)

CallIsSortedBy == op = "none" /\ \E l \in PlainSlices, f \in LessFns :
    Call("IsSortedBy", f, l, NilCallerSlice, IsSortedBy(l, f), l)

CallMap == op = "none" /\ \E l \in PlainSlices, f \in MapFns :
    Call("Map", f, l, NilCallerSlice, MapCall(l, f), l)

CallMapInPlace == op = "none" /\ \E l \in PlainSlices, f \in MapFns :
    LET res == MapInPlace(l, f)
    IN  Call("MapInPlace", f, l, NilCallerSlice, [NoOut EXCEPT !.st = res.st],
             [l EXCEPT !.elems = res.arr])

CallMaxBy == op = "none" /\ \E l \in PlainSlices, f \in LessFns :
    Call("MaxBy", f, l, NilCallerSlice, MaxBy(l, f), l)

CallMinBy == op = "none" /\ \E l \in PlainSlices, f \in LessFns :
    Call("MinBy", f, l, NilCallerSlice, MinBy(l, f), l)

CallPartition == op = "none" /\ \E l \in PlainSlices, f \in PredFns :
    Call("Partition", f, l, NilCallerSlice, Partition(l, Cb(f)), l)

CallReverse == op = "none" /\ \E l \in PlainSlices :
    Call("Reverse", "nil", l, NilCallerSlice, Reverse(l), l)

\* Reverse(Reverse(lhs))
ReverseAgain ==
    /\ op = "Reverse"
    /\ op' = "ReverseReverse"
    /\ out2' = Reverse(out.a)
    /\ UNCHANGED <<fn, lhs, rhs, lhsAfter, out, fwd, bck, ppc>>
    /\ UNCHANGED <<parVars, divVars, auxVars>>

CallReverseInPlace == op = "none" /\ \E l \in PlainSlices :
    Call("ReverseInPlace", "nil", l, NilCallerSlice, [NoOut EXCEPT !.st = "ok"],
         [l EXCEPT !.elems = ReverseInPlace(l)])

\* ReverseInPlace(lhs) a second time
ReverseInPlaceAgain ==
    /\ op = "ReverseInPlace"
    /\ op' = "ReverseInPlaceTwice"
    /\ lhsAfter' = [lhsAfter EXCEPT !.elems = ReverseInPlace(lhsAfter)]
    /\ UNCHANGED <<fn, lhs, rhs, out, out2, fwd, bck, ppc>>
    /\ UNCHANGED <<parVars, divVars, auxVars>>

CallDeduplicate == op = "none" /\ \E l \in PlainSlices :
    Call("Deduplicate", "nil", l, NilCallerSlice, Deduplicate(l), l)

\* Deduplicate(Deduplicate(lhs))
DeduplicateAgain ==
    /\ op = "Deduplicate"
    /\ op' = "DeduplicateDeduplicate"
    /\ out2' = Deduplicate(out.a)
    /\ UNCHANGED <<fn, lhs, rhs, lhsAfter, out, fwd, bck, ppc>>
    /\ UNCHANGED <<parVars, divVars, auxVars>>

CallDifference == op = "none" /\ \E l \in PlainSlices, r \in PlainSlices :
    Call("Difference", "nil", l, r, Difference(l, r), l)

CallIntersection == op = "none" /\ \E l \in PlainSlices, r \in PlainSlices :
    Call("Intersection", "nil", l, r, Intersection(l, r), l)

\* Intersection(lhs, rhs) after Difference(lhs, rhs), on the same operands
IntersectionSame ==
    /\ op = "Difference"
    /\ op' = "DifferenceIntersection"
    /\ out2' = Intersection(lhs, rhs)
    /\ UNCHANGED <<fn, lhs, rhs, lhsAfter, out, fwd, bck, ppc>>
    /\ UNCHANGED <<parVars, divVars, auxVars>>

CallSymmetricDifference == op = "none" /\ \E l \in PlainSlices, r \in PlainSlices :
    Call("SymmetricDifference", "nil", l, r, SymmetricDifference(l, r), l)

CallUnion == op = "none" /\ \E l \in CallerSlices, r \in PlainSlices :
    LET u == Union(l, r)
    IN  Call("Union", "nil", l, r, u.out, u.lhsAfter)

\* Union(rhs, lhs) after Union(lhs, rhs), on the slices as the caller holds them
UnionSwapped ==
    /\ op = "Union"
    /\ op' = "UnionUnion"
    /\ out2' = Union(rhs, lhsAfter).out
    /\ UNCHANGED <<fn, lhs, rhs, lhsAfter, out, fwd, bck, ppc>>
    /\ UNCHANGED <<parVars, divVars, auxVars>>

\* ---------------------------------------------------------- Join, Flatten
\* the slices that are joined: nil, empty or holding elements
InnerSlices == {NilSlice} \cup {MkSlice(s) : s \in SeqsOver(JoinMaxLen, 1..JoinMaxElem)}

\* the three slices joined into [1 .. 8]
JoinScenario == MkSlice(<<MkSlice(<<1, 2, 3>>), MkSlice(<<4, 5, 6>>), MkSlice(<<7, 8>>)>>)

\* the variadic parameter slices ...[]T (nil when Join is called without
\* arguments, the spread slice itself in Join(s...)) and Flatten's [][]T
OuterSlices ==
    {NilSlice, JoinScenario} \cup {MkSlice(ss) : ss \in SeqsOver(JoinMaxArgs, InnerSlices)}

\* for _, val := range slice { outSlice = append(outSlice, val...) }
RECURSIVE FlattenLoop(_, _)
FlattenLoop(rest, outSlice) ==
    IF rest = <<>> THEN outSlice
    ELSE FlattenLoop(Tail(rest), outSlice \o Head(rest).elems)

Flatten(sl) ==
    IF sl.nil THEN OkSlice(NilSlice) ELSE OkSlice(MkSlice(FlattenLoop(sl.elems, <<>>)))

\* for _, slice := range slices { outSlice = append(outSlice, slice...) }
RECURSIVE JoinLoop(_, _)
JoinLoop(rest, outSlice) ==
    IF rest = <<>> THEN outSlice
    ELSE JoinLoop(Tail(rest), outSlice \o Head(rest).elems)

\* variant: nil is returned whenever there is no slice to join
Join_EmptyAsNil(sls) ==
    IF Len(sls.elems) = 0 THEN OkSlice(NilSlice)
    ELSE OkSlice(MkSlice(JoinLoop(sls.elems, <<>>)))

Join(sls) ==
    IF sls.nil THEN OkSlice(NilSlice) ELSE OkSlice(MkSlice(JoinLoop(sls.elems, <<>>)))

CallJoin == op = "none" /\ \E sls \in OuterSlices :
    /\ op' = "Join" /\ slices' = sls /\ out' = Join(sls)
    /\ UNCHANGED <<fn, lhs, rhs, lhsAfter, out2, fwd, bck, ppc, cbArgs>>
    /\ UNCHANGED <<parVars, divVars>>

CallFlatten == op = "none" /\ \E sl \in OuterSlices :
    /\ op' = "Flatten" /\ slices' = sl /\ out' = Flatten(sl)
    /\ UNCHANGED <<fn, lhs, rhs, lhsAfter, out2, fwd, bck, ppc, cbArgs>>
    /\ UNCHANGED <<parVars, divVars>>

\* -------------------------------------------------------- PartitionInPlace
\* the ten-element slice partitioned by "is even"
PartScenario == [nil |-> FALSE, elems |-> <<1, 2, 3, 4, 5, 6, 7, 8, 9, 10>>, cap |-> 10]

\* fwd := -1; bck := len(slice)
CallPartitionInPlace == op = "none" /\ \E l \in PlainSlices \cup {PartScenario}, f \in PredFns :
    /\ op = "none"
    /\ op' = "PartitionInPlace" /\ fn' = f /\ lhs' = l /\ lhsAfter' = l
    /\ fwd' = -1 /\ bck' = Len(l.elems) /\ ppc' = "top"
    /\ UNCHANGED <<rhs, out, out2>>
    /\ UNCHANGED <<parVars, divVars, auxVars>>

\* fwd++
PartTop ==
    /\ ppc = "top"
    /\ fwd' = fwd + 1
    /\ ppc' = "fwdLoop"
    /\ UNCHANGED <<op, fn, lhs, rhs, lhsAfter, out, out2, bck>>
    /\ UNCHANGED <<parVars, divVars, auxVars>>

\* for fwd < bck && firstPart(slice[fwd]) { fwd++ }
PartFwd ==
    /\ ppc = "fwdLoop"
    /\ IF fwd < bck
       THEN IF fn = "nil"
            THEN out' = PanicOut /\ ppc' = "panicked" /\ UNCHANGED fwd
            ELSE IF PredVal(Cb(fn), lhsAfter.elems[fwd + 1])
                 THEN fwd' = fwd + 1 /\ UNCHANGED <<ppc, out>>
                 ELSE ppc' = "bckDec" /\ UNCHANGED <<fwd, out>>
       ELSE ppc' = "bckDec" /\ UNCHANGED <<fwd, out>>
    /\ cbArgs' = IF fwd < bck /\ fn # "nil"
                 THEN Append(cbArgs, lhsAfter.elems[fwd + 1]) ELSE cbArgs
    /\ UNCHANGED <<op, fn, lhs, rhs, lhsAfter, out2, bck, slices>>
    /\ UNCHANGED <<parVars, divVars>>

\* variant: bck is not decremented before the backward scan
PartBckDec_Skip ==
    /\ ppc = "bckDec"
    /\ ppc' = "bckLoop"
    /\ UNCHANGED <<op, fn, lhs, rhs, lhsAfter, out, out2, fwd, bck>>
    /\ UNCHANGED <<parVars, divVars, auxVars>>

\* bck--
PartBckDec ==
    /\ ppc = "bckDec"
    /\ bck' = bck - 1
    /\ ppc' = "bckLoop"
    /\ UNCHANGED <<op, fn, lhs, rhs, lhsAfter, out, out2, fwd>>
    /\ UNCHANGED <<parVars, divVars, auxVars>>

\* variant: the backward scan stops on the elements it should skip
PartBck_Inverted ==
    /\ ppc = "bckLoop"
    /\ IF fwd < bck
       THEN IF fn = "nil"
            THEN out' = PanicOut /\ ppc' = "panicked" /\ UNCHANGED bck
            ELSE IF PredVal(Cb(fn), lhsAfter.elems[bck + 1])
                 THEN bck' = bck - 1 /\ UNCHANGED <<ppc, out>>
                 ELSE ppc' = "check" /\ UNCHANGED <<bck, out>>
       ELSE ppc' = "check" /\ UNCHANGED <<bck, out>>
    /\ cbArgs' = IF fwd < bck /\ fn # "nil"
                 THEN Append(cbArgs, lhsAfter.elems[bck + 1]) ELSE cbArgs
    /\ UNCHANGED <<op, fn, lhs, rhs, lhsAfter, out2, fwd, slices>>
    /\ UNCHANGED <<parVars, divVars>>

\* for fwd < bck && !firstPart(slice[bck]) { bck-- }
PartBck ==
    /\ ppc = "bckLoop"
    /\ IF fwd < bck
       THEN IF fn = "nil"
            THEN out' = PanicOut /\ ppc' = "panicked" /\ UNCHANGED bck
            ELSE IF ~PredVal(Cb(fn), lhsAfter.elems[bck + 1])
                 THEN bck' = bck - 1 /\ UNCHANGED <<ppc, out>>
                 ELSE ppc' = "check" /\ UNCHANGED <<bck, out>>
       ELSE ppc' = "check" /\ UNCHANGED <<bck, out>>
    /\ cbArgs' = IF fwd < bck /\ fn # "nil"
                 THEN Append(cbArgs, lhsAfter.elems[bck + 1]) ELSE cbArgs
    /\ UNCHANGED <<op, fn, lhs, rhs, lhsAfter, out2, fwd, slices>>
    /\ UNCHANGED <<parVars, divVars>>

\* variant: the boundary returned is bck
PartCheck_ReturnBck ==
    /\ ppc = "check"
    /\ IF fwd >= bck
       THEN out' = OkInt(bck) /\ ppc' = "returned" /\ UNCHANGED lhsAfter
       ELSE /\ lhsAfter' = [lhsAfter EXCEPT !.elems[fwd + 1] = lhsAfter.elems[bck + 1],
                                            !.elems[bck + 1] = lhsAfter.elems[fwd + 1]]
            /\ ppc' = "top"
            /\ UNCHANGED out
    /\ UNCHANGED <<op, fn, lhs, rhs, out2, fwd, bck>>
    /\ UNCHANGED <<parVars, divVars, auxVars>>

\* if fwd >= bck { return fwd }; slice[fwd], slice[bck] = slice[bck], slice[fwd]
PartCheck ==
    /\ ppc = "check"
    /\ IF fwd >= bck
       THEN out' = OkInt(fwd) /\ ppc' = "returned" /\ UNCHANGED lhsAfter
       ELSE /\ lhsAfter' = [lhsAfter EXCEPT !.elems[fwd + 1] = lhsAfter.elems[bck + 1],
                                            !.elems[bck + 1] = lhsAfter.elems[fwd + 1]]
            /\ ppc' = "top"
            /\ UNCHANGED out
    /\ UNCHANGED <<op, fn, lhs, rhs, out2, fwd, bck>>
    /\ UNCHANGED <<parVars, divVars, auxVars>>

InitSeq == ParIdle /\ DivIdle /\ SeqIdle

NextSeq ==
    \/ CallAll \/ CallAny \/ CallCount
    \/ CallFilter \/ CallFilterInPlace \/ CallFilterInPlaceNilPtr \/ CallFilterMap \/ CallFindBy \/ CallFold
    \/ CallIsSortedBy \/ CallMap \/ CallMapInPlace \/ CallMaxBy \/ CallMinBy
    \/ CallPartition
    \/ CallPartitionInPlace \/ PartTop \/ PartFwd \/ PartBckDec \/ PartBck \/ PartCheck
    \/ CallReverse \/ ReverseAgain \/ CallReverseInPlace \/ ReverseInPlaceAgain
    \/ CallDeduplicate \/ DeduplicateAgain
    \/ CallDifference \/ CallIntersection \/ IntersectionSame \/ CallSymmetricDifference
    \/ CallUnion \/ UnionSwapped
    \/ CallJoin \/ CallFlatten

SpecSeq == InitSeq /\ [][NextSeq]_vars

\* PartitionInPlace alone; the calling goroutine keeps executing its loop
PartStep == PartTop \/ PartFwd \/ PartBckDec \/ PartBck \/ PartCheck

NextPart == CallPartitionInPlace \/ PartStep

SpecPart == InitSeq /\ [][NextPart]_vars /\ WF_vars(PartStep)

\* ------------------------------------------------- division generator claims
Recorded(i) == parts[i].st = "ok"

DivsOk == divGen.st = "ok" /\ genDivs >= 1

AllRecorded == \A i \in 0..(genDivs - 1) : Recorded(i)

RECURSIVE SumLengths(_)
SumLengths(n) == IF n = 0 THEN 0 ELSE parts[n - 1].length + SumLengths(n - 1)

\* C1: for length N >= 0 and D >= 1 divisions, the ranges
\* [offset(i), offset(i) + size(i)) returned by offsetAndLength for i < D are
\* pairwise disjoint and contiguous (offset(0) = 0, offset(i+1) = offset(i) +
\* size(i)), and cover exactly [0, N), so the sizes sum to N.
C1_RangesPartition ==
    DivsOk =>
        /\ Recorded(0) => parts[0].offset = 0
        /\ \A i \in 0..(genDivs - 1) : Recorded(i) =>
               /\ parts[i].length >= 0
               /\ parts[i].offset + parts[i].length <= genLength
               /\ (i = genDivs - 1 => parts[i].offset + parts[i].length = genLength)
        /\ \A i \in 0..(genDivs - 2) : Recorded(i) /\ Recorded(i + 1) =>
               parts[i + 1].offset = parts[i].offset + parts[i].length
        /\ \A i, j \in 0..(genDivs - 1) : i < j /\ Recorded(i) /\ Recorded(j) =>
               parts[i].offset + parts[i].length <= parts[j].offset
        /\ AllRecorded => SumLengths(genDivs) = genLength

\* length 1 in 4 divisions gives (0,1), (1,0), (1,0), (1,0)
C1_Witness ==
    /\ genLength = 1 /\ genDivs = 4 /\ AllRecorded
    /\ <<parts[0].offset, parts[0].length>> = <<0, 1>>
    /\ \A i \in 1..3 : <<parts[i].offset, parts[i].length>> = <<1, 0>>

\* C2: for N >= 0, D >= 1 and i < D, size(i) is floor(N / D) + 1 when
\* i < N mod D and floor(N / D) otherwise; so two divisions differ in size by
\* at most one and the larger ones are exactly the earliest indices.
C2_BalancedSizes ==
    DivsOk =>
        /\ \A i \in 0..(genDivs - 1) : Recorded(i) =>
               parts[i].length = (genLength \div genDivs)
                                 + (IF i < genLength % genDivs THEN 1 ELSE 0)
        /\ \A i, j \in 0..(genDivs - 1) : i < j /\ Recorded(i) /\ Recorded(j) =>
               /\ parts[i].length >= parts[j].length
               /\ parts[i].length - parts[j].length <= 1

\* length 10 in 3 divisions gives (0,4), (4,3), (7,3)
C2_Witness ==
    /\ genLength = 10 /\ genDivs = 3 /\ AllRecorded
    /\ <<parts[0].offset, parts[0].length>> = <<0, 4>>
    /\ <<parts[1].offset, parts[1].length>> = <<4, 3>>
    /\ <<parts[2].offset, parts[2].length>> = <<7, 3>>

\* C9: newSliceDivGen(length, 0) panics for every length and never yields a
\* usable generator, so no division is ever obtained from it.
C9_ZeroDivsPanics ==
    genDivs = 0 =>
        /\ divGen.st \in {"none", "panic"}
        /\ \A i \in DivIdxs : parts[i].st = "none" /\ ranges[i].st = "none"

C9_Witness == genDivs = 0 /\ genLength > 0 /\ divGen.st = "panic"

OutOfRange(i) == genDivs >= 1 /\ i >= genDivs

\* C10 as stated: a query with divIdx >= divisions fails fatally; it never
\* returns an (offset, size) pair.
C10_OutOfRangeFails ==
    \A i \in DivIdxs : OutOfRange(i) => parts[i].st # "ok" /\ ranges[i].st # "ok"

\* C10 as amended: a query with divIdx >= divisions is not detected; it
\* returns the pair (N + (divIdx - D) * floor(N / D), floor(N / D)), a range
\* that starts at or beyond the end of the sequence.
C10_OutOfRangeReturns ==
    \A i \in DivIdxs : OutOfRange(i) =>
        LET q == genLength \div genDivs
            off == genLength + (i - genDivs) * q
        IN  /\ parts[i].st = "ok" =>
                parts[i].offset = off /\ parts[i].length = q /\ parts[i].offset >= genLength
            /\ ranges[i].st = "ok" =>
                ranges[i].start = off /\ ranges[i].end = off + q

C10_Witness ==
    \E i \in DivIdxs :
        /\ OutOfRange(i) /\ genLength % genDivs > 0 /\ genLength > genDivs
        /\ parts[i].st = "ok" /\ ranges[i].st = "ok"

\* ------------------------------------------------------------ ParMap claims
Returned == pc = "done" /\ ~slice.nil

Spawned(w) == workers[w].pc # "unborn"

ReportedDone(w) == workers[w].pc \in {"exit", "dying", "crashed"}

\* C3: on a non-nil slice and a mapFn that returns on every element, ParMap
\* returns a slice equal in length and element for element to Map(slice,
\* mapFn), for every worker count, also one larger than len(slice).
C3_ParMapEqualsMap ==
    Returned /\ Total(mapFn, slice) => ret = Map(slice, mapFn)

C3_Witness ==
    /\ Returned /\ Total(mapFn, slice)
    /\ Len(slice.elems) >= 1 /\ numCPU > Len(slice.elems)
    /\ ret = Map(slice, mapFn)

\* the range of division w, as 1-based slots
Region(w) ==
    LET se == startAndEnd(sliceDivGen, w)
    IN  (se.start + 1)..se.end

\* C4: no two workers address the same slot of the result buffer, and no
\* worker reads an input index or writes an output index outside the
\* [start, end) range of its own division.
C4_DisjointRegions ==
    /\ \A w1, w2 \in WorkerIds : w1 # w2 => writes[w1] \cap writes[w2] = {}
    /\ \A w \in WorkerIds :
           Spawned(w) => reads[w] \subseteq Region(w) /\ writes[w] \subseteq Region(w)
    /\ \A i \in Slots : writeCnt[i] <= 1

\* two workers have both written, one of them is in the middle of its copy
C4_Witness ==
    \E w1, w2 \in WorkerIds :
        /\ w1 # w2
        /\ workers[w1].pc = "copy" /\ workers[w2].pc = "copy"
        /\ writes[w1] # {} /\ workers[w1].k < CopyLen(w1)
        /\ writes[w2] # {}

\* C5: the slice returned by ParMap is the same for every scheduling and
\* completion order of the workers: it is fixed by the slice and mapFn alone.
C5_ScheduleIndependent ==
    Returned /\ Total(mapFn, slice) =>
        /\ Len(ret.elems) = Len(slice.elems)
        /\ \A w \in WorkerIds : \A i \in Region(w) :
               w < numCPU => ret.elems[i] = Apply(mapFn, slice.elems[i])

\* [1..8] doubled by four workers that finish in the reverse of their
\* starting order gives [2, 4, .., 16]
C5_Witness ==
    /\ Returned /\ slice = ScenarioSlice /\ mapFn = "double" /\ numCPU = 4
    /\ doneOrder = <<3, 2, 1, 0>>
    /\ ret.elems = <<2, 4, 6, 8, 10, 12, 14, 16>>

\* C6: ParMap returns only after every spawned worker has reported
\* completion: every write to the result buffer precedes the return and none
\* follows it.
C6_ReturnAfterJoin ==
    Returned =>
        /\ wg = 0
        /\ \A w \in 0..(numCPU - 1) : ReportedDone(w)
        /\ resultSlice = ret

C6_Witness ==
    /\ Returned /\ numCPU >= 2
    /\ \A w \in 0..(numCPU - 1) : workers[w].pc = "exit" /\ writes[w] # {}

\* C7: a panic of mapFn inside a worker is re-raised on the caller of ParMap
\* after the join, or the other workers are cancelled; it is never an
\* unhandled failure of the worker itself.
C7_WorkerPanicHandled ==
    \A w \in WorkerIds : workers[w].pc # "crashed"

\* C8: ParMap on a nil slice returns nil before any division generator is
\* built, any result buffer is allocated or any worker is started, and mapFn
\* is never invoked.
C8_NilShortCircuits ==
    slice.nil /\ pc # "idle" =>
        /\ pc \in {"call", "done"}
        /\ ret = NilSlice
        /\ sliceDivGen = NoGen /\ resultSlice = NilSlice /\ wg = 0
        /\ \A w \in WorkerIds : ~Spawned(w)
        /\ \A i \in Slots : calls[i] = 0

C8_Witness == slice.nil /\ pc = "done" /\ ret = NilSlice /\ mapFn = "nil"

\* ------------------------------------------------ sequential function claims
CallbackOps ==
    {"All", "Any", "Count", "Filter", "FilterInPlace", "FilterMap", "FindBy", "Fold",
     "IsSortedBy", "Map", "MapInPlace", "MaxBy", "MinBy", "Partition", "PartitionInPlace"}

\* C11: every callback-accepting operation fails fatally when given a nil
\* callback, for every input sequence including nil and empty ones; it never
\* returns a normal result.
C11_NilCallbackPanics ==
    op \in CallbackOps /\ fn = "nil" => out.st # "ok"

NonInPlaceSetOps == {"Union", "Intersection", "Difference", "SymmetricDifference"}

C13_NilOnlyIfBothNil ==
    op \in NonInPlaceSetOps => (out.a.nil <=> (lhs.nil /\ rhs.nil))

\* C13 as amended: the result is nil when both operands are nil; Intersection
\* is nil only then, Difference is nil exactly when lhs is nil, and Union and
\* SymmetricDifference are nil exactly when lhs is nil and rhs has no element.
C13_NilResults ==
    /\ op \in NonInPlaceSetOps /\ lhs.nil /\ rhs.nil => out.a.nil
    /\ op = "Intersection" => (out.a.nil <=> (lhs.nil /\ rhs.nil))
    /\ op = "Difference" => (out.a.nil <=> lhs.nil)
    /\ op \in {"Union", "SymmetricDifference"} =>
           (out.a.nil <=> (lhs.nil /\ Len(rhs.elems) = 0))

\* Intersection of a nil lhs with a non-empty rhs is an empty, non-nil slice
C13_Witness ==
    /\ op = "Intersection" /\ lhs.nil /\ Len(rhs.elems) > 0
    /\ ~out.a.nil /\ out.a.elems = <<>>

PartReturned == op = "PartitionInPlace" /\ ppc = "returned"

\* how often v occurs in the sequence s
Occurrences(s, v) == Cardinality({i \in 1..Len(s) : s[i] = v})

SameMultiset(s, t) ==
    /\ Len(s) = Len(t)
    /\ \A i \in 1..Len(s) : Occurrences(s, s[i]) = Occurrences(t, s[i])

\* C14: PartitionInPlace returns idx with 0 <= idx <= len(slice) such that
\* every element of slice[:idx] satisfies the predicate, every element of
\* slice[idx:] fails it, and the slice is a permutation of its old contents.
C14_PartitionInPlaceCorrect ==
    PartReturned =>
        /\ out.st = "ok" /\ 0 <= out.n /\ out.n <= Len(lhs.elems)
        /\ \A i \in 1..Len(lhsAfter.elems) :
               PredVal(Cb(fn), lhsAfter.elems[i]) <=> i <= out.n
        /\ SameMultiset(lhsAfter.elems, lhs.elems)

\* [1..10] by "is even": the boundary is 5, with {2,4,6,8,10} before it
C14_Witness ==
    /\ PartReturned /\ lhs = PartScenario /\ fn = "isEven" /\ out.n = 5
    /\ {lhsAfter.elems[i] : i \in 1..5} = {2, 4, 6, 8, 10}
    /\ {lhsAfter.elems[i] : i \in 6..10} = {1, 3, 5, 7, 9}

\* C15: the true branch of Partition(s, p) has the same multiset of elements
\* as slice[:idx] after idx = PartitionInPlace(copy of s, p), and the false
\* branch the same multiset as slice[idx:].
C15_PartitionsAgree ==
    PartReturned =>
        LET pt == Partition(lhs, Cb(fn))
        IN  /\ pt.st = "ok"
            /\ SameMultiset(pt.a.elems, SubSeq(lhsAfter.elems, 1, out.n))
            /\ SameMultiset(pt.b.elems, SubSeq(lhsAfter.elems, out.n + 1, Len(lhsAfter.elems)))

\* the in-place partition reordered a branch that Partition keeps in order
C15_Witness ==
    /\ PartReturned /\ Len(lhs.elems) = 3 /\ out.n = 2
    /\ Partition(lhs, Cb(fn)).a.elems # SubSeq(lhsAfter.elems, 1, out.n)

\* C16: Partition returns (nil, nil) on a nil slice and otherwise two non-nil
\* slices, the subsequence of elements satisfying the predicate and the
\* subsequence of those failing it, each in the original order.
C16_PartitionStable ==
    op = "Partition" /\ out.st = "ok" =>
        LET T(x) == PredVal(Cb(fn), x)
            F(x) == ~PredVal(Cb(fn), x)
        IN  IF lhs.nil THEN out.a = NilSlice /\ out.b = NilSlice
            ELSE /\ out.a = MkSlice(SelectSeq(lhs.elems, T))
                 /\ out.b = MkSlice(SelectSeq(lhs.elems, F))

C16_Witness ==
    /\ op = "Partition" /\ fn = "isEven" /\ lhs.elems = <<2, 3, 2>>
    /\ out.a.elems = <<2, 2>> /\ out.b.elems = <<3>>

\* C17: Reverse(Reverse(s)) = s for every s, nil and empty included, and
\* ReverseInPlace applied twice restores the slice.
C17_ReverseInvolution ==
    /\ op = "ReverseReverse" =>
           out2.st = "ok" /\ out2.a.nil = lhs.nil /\ out2.a.elems = lhs.elems
    /\ op = "ReverseInPlaceTwice" => lhsAfter = lhs

C17_Witness ==
    /\ op = "ReverseReverse" /\ lhs.elems = <<1, 2, 3>>
    /\ out.a.elems = <<3, 2, 1>> /\ out2.a.elems = <<1, 2, 3>>

\* C18 as stated: Reverse returns nil on a nil input and also on an empty,
\* non-nil input.
C18_ReverseEmptyIsNil ==
    op = "Reverse" /\ Len(lhs.elems) = 0 => out.a.nil

\* C18 as amended: Reverse returns nil on a nil input, and on an empty,
\* non-nil input it returns an empty, non-nil slice.
C18_ReverseKeepsNilness ==
    op = "Reverse" => (out.a.nil <=> lhs.nil) /\ Len(out.a.elems) = Len(lhs.elems)

C18_Witness ==
    op = "Reverse" /\ ~lhs.nil /\ Len(lhs.elems) = 0 /\ ~out.a.nil /\ out.a.elems = <<>>

\* the index of the first occurrence of v in s
FirstIndex(s, v) == CHOOSE i \in 1..Len(s) : s[i] = v /\ \A j \in 1..(i - 1) : s[j] # v

\* d holds exactly the first occurrence of each distinct element of s, in order
IsFirstOccurrences(d, s) ==
    /\ {d[i] : i \in 1..Len(d)} = {s[i] : i \in 1..Len(s)}
    /\ \A p, q \in 1..Len(d) :
           p < q => d[p] # d[q] /\ FirstIndex(s, d[p]) < FirstIndex(s, d[q])

\* C19: Deduplicate(Deduplicate(s)) = Deduplicate(s), where Deduplicate(s)
\* keeps exactly the first occurrence of each distinct element, in order.
C19_DeduplicateIdempotent ==
    /\ op \in {"Deduplicate", "DeduplicateDeduplicate"} =>
           out.st = "ok" /\ out.a.nil = lhs.nil /\ IsFirstOccurrences(out.a.elems, lhs.elems)
    /\ op = "DeduplicateDeduplicate" => out2 = out

C19_Witness ==
    /\ op = "DeduplicateDeduplicate" /\ lhs.elems = <<2, 1, 2>>
    /\ out.a.elems = <<2, 1>> /\ out2.a.elems = <<2, 1>>

ElemSet(sl) == {sl.elems[i] : i \in 1..Len(sl.elems)}

\* C20: Union(a, b) and Union(b, a) contain the same set of distinct
\* elements: every element of a or b and nothing else.
C20_UnionCommutes ==
    op = "UnionUnion" =>
        /\ ElemSet(out.a) = ElemSet(lhs) \cup ElemSet(rhs)
        /\ ElemSet(out2.a) = ElemSet(out.a)

C20_Witness ==
    /\ op = "UnionUnion" /\ lhs.elems = <<1, 2>> /\ rhs.elems = <<3, 2>>
    /\ out.a.elems = <<1, 2, 3>> /\ out2.a.elems = <<3, 2, 1>>

\* C21: Intersection(a, b) is exactly the subsequence of a whose elements
\* occur in b and Difference(a, b) exactly the subsequence of those that do
\* not, so the two partition the positions of a, and every element of the
\* intersection is a member of both a and b.
C21_IntersectionDifferenceSplit ==
    op = "DifferenceIntersection" =>
        LET InB(x) == x \in ElemSet(rhs)
            NotInB(x) == x \notin ElemSet(rhs)
        IN  /\ out.st = "ok" /\ out2.st = "ok"
            /\ out.a.elems = SelectSeq(lhs.elems, NotInB)
            /\ out2.a.elems = SelectSeq(lhs.elems, InB)
            /\ Len(out.a.elems) + Len(out2.a.elems) = Len(lhs.elems)
            /\ ElemSet(out2.a) \subseteq ElemSet(lhs) \cap ElemSet(rhs)
            /\ ElemSet(out.a) \cap ElemSet(out2.a) = {}

C21_Witness ==
    /\ op = "DifferenceIntersection" /\ lhs.elems = <<1, 2, 1>> /\ rhs.elems = <<3, 1>>
    /\ out.a.elems = <<2>> /\ out2.a.elems = <<1, 1>>

\* C22: Union(lhs, rhs) has no repeated element and is the distinct elements
\* of lhs in first-occurrence order followed by the distinct elements of rhs
\* that are not in lhs, in first-occurrence order.
C22_UnionOrder ==
    op = "Union" =>
        LET d == out.a.elems
            n == Cardinality(ElemSet(lhs))
            NotInLhs(x) == x \notin ElemSet(lhs)
        IN  /\ out.st = "ok"
            /\ \A p, q \in 1..Len(d) : p # q => d[p] # d[q]
            /\ n <= Len(d)
            /\ IsFirstOccurrences(SubSeq(d, 1, n), lhs.elems)
            /\ IsFirstOccurrences(SubSeq(d, n + 1, Len(d)), SelectSeq(rhs.elems, NotInLhs))

C22_Witness ==
    /\ op = "Union" /\ lhs.elems = <<2, 1, 2>> /\ rhs.elems = <<3, 1, 3>>
    /\ out.a.elems = <<2, 1, 3>>

\* C23: after FilterInPlace(&s, p) the slice s equals Filter(s_before, p):
\* exactly the elements of the original s that satisfy p, in their original
\* order, with the length shortened accordingly; a nil slice pointer or a
\* nil slice is left untouched.
C23_FilterInPlaceIsFilter ==
    /\ op = "FilterInPlace" =>
           LET f == Filter(lhs, Cb(fn))
               P(x) == PredVal(Cb(fn), x)
           IN  /\ out.st = f.st
               /\ out.st = "ok" =>
                      /\ lhsAfter.nil = f.a.nil /\ lhsAfter.elems = f.a.elems
                      /\ lhsAfter.elems = SelectSeq(lhs.elems, P)
                      /\ out.n = Len(lhsAfter.elems)
               /\ lhs.nil => lhsAfter = lhs /\ out.st = "ok"
    /\ op = "FilterInPlaceNilPtr" => out.st = "ok" /\ lhsAfter = lhs

C23_Witness ==
    /\ op = "FilterInPlace" /\ fn = "gtOne" /\ lhs.elems = <<1, 2, 3>>
    /\ lhsAfter.elems = <<2, 3>> /\ out.n = 2

\* index of the first element of s that no element of s is less than
FirstMinimal(s, f) ==
    LET Minimal(i) == \A j \in 1..Len(s) : ~Less(f, s[j], s[i])
    IN  CHOOSE i \in 1..Len(s) : Minimal(i) /\ \A j \in 1..(i - 1) : ~Minimal(j)

\* index of the first element of s that is less than no element of s
FirstMaximal(s, f) ==
    LET Maximal(i) == \A j \in 1..Len(s) : ~Less(f, s[i], s[j])
    IN  CHOOSE i \in 1..Len(s) : Maximal(i) /\ \A j \in 1..(i - 1) : ~Maximal(j)

\* C24: MinBy and MaxBy are stable: on a non-empty slice they return, with
\* true, the first element in scan order among those tied for minimum
\* (maximum) under lessFn; on an empty or nil slice they return (zero, false).
C24_MinMaxStable ==
    op \in {"MinBy", "MaxBy"} =>
        IF Len(lhs.elems) = 0
        THEN out.st = "ok" /\ out.n = zeroValue /\ ~out.ok
        ELSE fn # "nil" =>
                 /\ out.st = "ok" /\ out.ok
                 /\ op = "MinBy" => out.n = lhs.elems[FirstMinimal(lhs.elems, fn)]
                 /\ op = "MaxBy" => out.n = lhs.elems[FirstMaximal(lhs.elems, fn)]

\* 3 and 2 are tied under lessHalf and 3 comes first
C24_Witness ==
    /\ op = "MinBy" /\ fn = "lessHalf" /\ lhs.elems = <<3, 2, 3>>
    /\ out.ok /\ out.n = 3

\* the elements of the slices of ss, one slice after the other
RECURSIVE ConcatAll(_)
ConcatAll(ss) == IF ss = <<>> THEN <<>> ELSE Head(ss).elems \o ConcatAll(Tail(ss))

\* C25 as stated: Join of zero slices returns nil, Join of one or more
\* slices (each possibly nil or empty) returns a non-nil slice equal to their
\* concatenation in argument order, and Flatten of a nil outer slice is nil.
C25_JoinOfNoneIsNil ==
    /\ op = "Join" =>
           IF Len(slices.elems) = 0 THEN out.a.nil
           ELSE ~out.a.nil /\ out.a.elems = ConcatAll(slices.elems)
    /\ op = "Flatten" /\ slices.nil => out.a.nil

\* C25 as amended: Join returns nil exactly when its variadic parameter is
\* nil (a call without arguments, or Join(s...) with a nil s); otherwise,
\* also for Join(s...) with an empty non-nil s, it returns a non-nil slice
\* equal to the concatenation in argument order.  Flatten returns nil exactly
\* when the outer slice is nil and the concatenation otherwise.
C25_JoinNilness ==
    op \in {"Join", "Flatten"} =>
        /\ out.st = "ok"
        /\ out.a.nil <=> slices.nil
        /\ out.a.elems = ConcatAll(slices.elems)

\* Join(s...) with s empty and non-nil returns an empty, non-nil slice
C25_Witness ==
    /\ op = "Join" /\ ~slices.nil /\ Len(slices.elems) = 0
    /\ ~out.a.nil /\ out.a.elems = <<>>

\* s is the prefix of t that ends with the first element for which Stop
\* holds, or all of t when there is none
EndsAtFirst(s, t, Stop(_)) ==
    /\ Len(s) <= Len(t) /\ s = SubSeq(t, 1, Len(s))
    /\ \A i \in 1..(Len(s) - 1) : ~Stop(s[i])
    /\ Len(s) < Len(t) => Stop(s[Len(s)])

\* C26: All calls its callback on the elements in index order and not again
\* after the first element for which it returns false (Any: true), Count
\* calls it exactly once on every element, and All and Any return true and
\* false on a nil or empty slice.
C26_CallbackCalls ==
    LET P(x) == PredVal(Cb(fn), x)
        NotP(x) == ~PredVal(Cb(fn), x)
    IN  /\ op \in {"All", "Any", "Count"} /\ Len(lhs.elems) = 0 =>
               out.st = "ok" /\ cbArgs = <<>>
        /\ op = "All" /\ Len(lhs.elems) = 0 => out.ok
        /\ op = "Any" /\ Len(lhs.elems) = 0 => ~out.ok
        /\ op = "All" /\ fn # "nil" =>
               /\ EndsAtFirst(cbArgs, lhs.elems, NotP)
               /\ out.ok <=> \A i \in 1..Len(cbArgs) : P(cbArgs[i])
        /\ op = "Any" /\ fn # "nil" =>
               /\ EndsAtFirst(cbArgs, lhs.elems, P)
               /\ out.ok <=> \E i \in 1..Len(cbArgs) : P(cbArgs[i])
        /\ op = "Count" /\ fn # "nil" =>
               /\ cbArgs = lhs.elems
               /\ out.n = Cardinality({i \in 1..Len(lhs.elems) : P(lhs.elems[i])})

\* All stops at the odd second element and never sees the third
C26_Witness ==
    /\ op = "All" /\ fn = "isEven" /\ lhs.elems = <<2, 1, 2>>
    /\ cbArgs = <<2, 1>> /\ out.st = "ok" /\ ~out.ok

\* the loop is about to read slice[fwd], to read slice[bck], to swap the two
ReadsFwd == op = "PartitionInPlace" /\ ppc = "fwdLoop" /\ fwd < bck

ReadsBck == op = "PartitionInPlace" /\ ppc = "bckLoop" /\ fwd < bck

Swaps == op = "PartitionInPlace" /\ ppc = "check" /\ fwd < bck

PartEmptyReturnsZero ==
    op = "PartitionInPlace" /\ Len(lhs.elems) = 0 /\ ppc \notin {"top", "fwdLoop", "bckDec", "bckLoop", "check"} =>
        ppc = "returned" /\ out = OkInt(0) /\ cbArgs = <<>>

PartTerminates == (op = "PartitionInPlace" /\ fn # "nil") ~> (ppc = "returned")

PartChainEverywhere ==
    ReadsFwd \/ ReadsBck \/ Swaps => 0 <= fwd /\ fwd < bck /\ bck < Len(lhs.elems)

\* C27 as stated: PartitionInPlace terminates for every slice and total
\* predicate, at every read and swap 0 <= fwd < bck < len(slice) holds, and
\* an empty or nil slice returns 0 without a call of the predicate.
C27_IndexChainAlways ==
    []PartChainEverywhere /\ []PartEmptyReturnsZero /\ PartTerminates

PartIndexBounds ==
    /\ ReadsFwd => 0 <= fwd /\ fwd < bck /\ bck <= Len(lhs.elems)
    /\ ReadsBck \/ Swaps => 0 <= fwd /\ fwd < bck /\ bck < Len(lhs.elems)

\* C27 as amended: PartitionInPlace terminates for every slice and total
\* predicate; at every read of slice[fwd] 0 <= fwd < bck <= len(slice) holds
\* (bck = len(slice) during the first forward scan), at every read of
\* slice[bck] and every swap 0 <= fwd < bck < len(slice), so no index is out
\* of bounds; an empty or nil slice returns 0 without a call of the predicate.
C27_PartitionInPlaceTerminates ==
    []PartIndexBounds /\ []PartEmptyReturnsZero /\ PartTerminates

\* the first forward scan reads slice[0] while bck is still len(slice)
C27_Witness ==
    /\ ReadsFwd /\ fn # "nil" /\ fwd = 0 /\ bck = Len(lhs.elems) /\ Len(lhs.elems) = 3

\* C28: for N >= 0, D >= 1 and every division index i < D the range given by
\* startAndEnd satisfies 0 <= start <= end <= N, also when D > N, where the
\* trailing divisions are empty with start = end = N; so slice[start:end] and
\* resultSlice[start:end] of a ParMap worker are in bounds.
C28_RangesInBounds ==
    DivsOk =>
        \A i \in 0..(genDivs - 1) : ranges[i].st = "ok" =>
            /\ InBounds(ranges[i].start, ranges[i].end, genLength)
            /\ i >= genLength => ranges[i].start = genLength /\ ranges[i].end = genLength

\* length 2 in 4 divisions gives [0,1), [1,2), [2,2), [2,2)
C28_Witness ==
    /\ genLength = 2 /\ genDivs = 4
    /\ \A i \in 0..3 : ranges[i].st = "ok"
    /\ <<ranges[0].start, ranges[0].end>> = <<0, 1>>
    /\ <<ranges[1].start, ranges[1].end>> = <<1, 2>>
    /\ <<ranges[2].start, ranges[2].end>> = <<2, 2>>
    /\ <<ranges[3].start, ranges[3].end>> = <<2, 2>>

\* the workers are all started: the spawning loop has ended
AllSpawned == pc \in {"wait", "done"}

WaitGroupCounts ==
    /\ wg >= 0
    /\ pc \in {"spawn", "wait", "done"} /\ ~slice.nil =>
           /\ wg = numCPU - Len(doneOrder)
           /\ \A i, j \in 1..Len(doneOrder) : i # j => doneOrder[i] # doneOrder[j]
           /\ \A i \in 1..Len(doneOrder) : Spawned(doneOrder[i])
    /\ AllSpawned /\ ~slice.nil => {w \in WorkerIds : Spawned(w)} = 0..(numCPU - 1)

ParMapReturns == (pc = "call" /\ ~slice.nil /\ Total(mapFn, slice)) ~> (pc = "done")

\* C29: for a non-nil slice and a mapFn that always returns, ParMap
\* eventually returns under fair scheduling: exactly D workers are started
\* for a wait-group count of D, each worker signals completion exactly once,
\* the counter never goes negative and the wait is never left blocked.
C29_ParMapTerminates == []WaitGroupCounts /\ ParMapReturns

C29_Witness ==
    /\ Returned /\ Total(mapFn, slice) /\ numCPU = 3 /\ Len(slice.elems) = 2
    /\ wg = 0 /\ Len(doneOrder) = 3 /\ workers[2].pc = "exit" /\ writes[2] = {}

InputSlots == 1..Len(slice.elems)

OncePerSlot ==
    /\ \A i \in Slots : calls[i] <= 1 /\ writeCnt[i] <= 1
    /\ \A w1, w2 \in WorkerIds : w1 # w2 => reads[w1] \cap reads[w2] = {}
    /\ Returned /\ Total(mapFn, slice) =>
           /\ \A i \in InputSlots : calls[i] = 1 /\ writeCnt[i] = 1
           /\ \A i \in Slots \ InputSlots : calls[i] = 0 /\ writeCnt[i] = 0
           /\ \A w \in 0..(numCPU - 1) :
                  workers[w].pc = "exit" /\ reads[w] = Region(w) /\ writes[w] = Region(w)
           /\ \A i \in InputSlots : \E w \in 0..(numCPU - 1) : i \in Region(w)
           /\ \A w \in WorkerIds : w >= numCPU => ~Spawned(w)

====
